---- MODULE Spec2Model ----
(***************************************************************************)
(* Netatmo three-city collector (netatmo_collector.py): the tile grid      *)
(* (generate_city_tiles), the normaliser (parse_public_data) and the       *)
(* aggregation loop of main.                                               *)
(*                                                                         *)
(* Three specifications share the variables:                               *)
(*   Spec       main's loop over the tiles, merge and save;                *)
(*   ParseSpec  parse_public_data applied to one raw response;             *)
(*   TilesSpec  generate_city_tiles run on one city and one grid size.     *)
(***************************************************************************)
EXTENDS Integers, Sequences, FiniteSets, TLC

VARIABLES
    (* main *)
    all_tiles, i, pc, df, all_data, successful_tiles, failed_tiles,
    df_combined, saved,
    (* history of main's run: what was fetched, yielded, raised, slept *)
    fetched, yielded, raised, sleeps, slept_since_fetch, unpaced, na_seen,
    (* parse_public_data on its own *)
    response, parsed, ppc,
    (* generate_city_tiles on its own *)
    city_config, degrees, num_rows, num_cols, tiles, tile_id, row, col, tpc

mainvars == <<all_tiles, i, pc, df, all_data, successful_tiles, failed_tiles,
              df_combined, saved, fetched, yielded, raised, sleeps,
              slept_since_fetch, unpaced, na_seen>>
parsevars == <<response, parsed, ppc>>
tilevars == <<city_config, degrees, num_rows, num_cols, tiles, tile_id, row, col, tpc>>
vars == <<mainvars, parsevars, tilevars>>

----------------------------------------------------------------------------
(* Bounds of the model *)

MaxTiles == 3
MaxBody == 2
MaxRows == 3
MaxCols == 3
(* Coordinates are binary floating-point numbers of MantissaBits significant
   bits, counted in units of the smallest one; round(x, 4) rounds to a
   multiple of RoundUnit units.  Centres and half-widths are drawn from
   MinCenter..MaxCenter and MinDegree..MaxDegree. *)
MantissaBits == 9
RoundUnit == 20
MinCenter == 752
MaxCenter == 755
MinDegree == 187
MaxDegree == 190

----------------------------------------------------------------------------
(* Python values *)

None == "None"
NoTs == -1

AMSTERDAM_OFFSET == 3600

(* str.lower() on the capability names that occur in the responses. *)
Lower(t) ==
    CASE t = "Temperature" -> "temperature"
      [] t = "TEMP" -> "temp"
      [] OTHER -> t

(* int(k) on a JSON object key: the keys that occur, and whether int() accepts
   them.  int("0300") is 300, int("abc") raises ValueError. *)
IsIntText(k) == k \in {"0", "100", "200", "0300"}
IntOf(k) ==
    CASE k = "0" -> 0
      [] k = "100" -> 100
      [] k = "200" -> 200
      [] k = "0300" -> 300
      [] OTHER -> NoTs

(* str(ts) on the integers int() can return. *)
StrOf(n) ==
    CASE n = 0 -> "0"
      [] n = 100 -> "100"
      [] n = 200 -> "200"
      [] n = 300 -> "300"
      [] OTHER -> "?"

(* A temperature pandas can average: mean() raises TypeError on the others. *)
IsNumeric(v) == v \in {"10.0", "12.5"}

----------------------------------------------------------------------------
(* Raw responses.  A JSON list is a sequence; a JSON object whose keys matter
   (res, measures) is a sequence of key/value entries with distinct keys, in
   document order; a value that may be of the wrong type carries its type. *)

List(elems) == [list |-> TRUE, elems |-> elems]
NotAList == [list |-> FALSE, elems |-> <<>>]

Entry(k, v) == [key |-> k, vals |-> v]
ResDict(entries) == [kind |-> "dict", entries |-> entries]
ResAbsent == [kind |-> "absent", entries |-> <<>>]
ResNotDict == [kind |-> "list", entries |-> <<>>]

ResShapes ==
    { ResAbsent, ResNotDict, ResDict(<<>>),
      ResDict(<<Entry("100", List(<<"10.0">>))>>),
      ResDict(<<Entry("100", List(<<"10.0">>)), Entry("200", List(<<"12.5", "10.0">>))>>),
      ResDict(<<Entry("200", List(<<"10.0">>)), Entry("100", List(<<"12.5">>))>>),
      ResDict(<<Entry("abc", List(<<"10.0">>)), Entry("100", List(<<"12.5">>))>>),
      ResDict(<<Entry("100", NotAList)>>),
      ResDict(<<Entry("100", List(<<"10.0">>)), Entry("200", List(<<>>))>>),
      ResDict(<<Entry("100", List(<<None>>))>>),
      ResDict(<<Entry("100", List(<<"10.0">>)), Entry("0300", List(<<"12.5">>))>>),
      ResDict(<<Entry("0", List(<<"12.5">>))>>),
      ResDict(<<Entry("100", List(<<"n/a">>))>>) }

TempTypes == { <<"temperature", "humidity">>, <<"Temperature">>, <<"humidity", "TEMP">> }
OtherTypes == { <<"pressure">>, <<>> }

Measure(types, res) == [type |-> types, res |-> res]

Place(loc) == [has_location |-> TRUE, location |-> loc]
NoLocation == [has_location |-> FALSE, location |-> <<>>]
Utrecht == Place(<<"5.1222", "52.0908">>)

DeviceIds == {"70:ee:50:aa", "70:ee:50:bb"}

Item(place, measures) == [isdict |-> TRUE, place |-> place, measures |-> measures]
NotAnItem == [isdict |-> FALSE, place |-> NoLocation, measures |-> <<>>]
Dev(d, m) == [dev_id |-> d, m |-> m]

(* The device entries ParseSpec draws a body from. *)
Items ==
    { Item(Utrecht, <<Dev(d, Measure(t, r))>>) :
        d \in DeviceIds, t \in {<<"temperature", "humidity">>}, r \in ResShapes }
    \cup { Item(Utrecht, <<Dev(d, Measure(t, ResDict(<<Entry("100", List(<<"10.0">>))>>)))>>) :
        d \in DeviceIds, t \in TempTypes \cup OtherTypes }
    \cup { Item(p, <<Dev("70:ee:50:aa", Measure(<<"temperature">>,
                                              ResDict(<<Entry("200", List(<<"12.5">>))>>))),
                     Dev("70:ee:50:bb", Measure(<<"pressure">>,
                                              ResDict(<<Entry("200", List(<<"10.0">>))>>)))>>) :
        p \in {Utrecht, NoLocation, Place(<<"5.1222">>)} }
    \cup { NotAnItem }

(* The device entries a tile's response is drawn from in main's run. *)
MainItems ==
    { Item(Utrecht, <<Dev("70:ee:50:aa", Measure(<<"temperature">>, r))>>) :
        r \in { ResDict(<<Entry("100", List(<<"10.0">>))>>),
                ResDict(<<Entry("100", List(<<"10.0">>)), Entry("200", List(<<"12.5", "10.0">>))>>),
                ResAbsent,
                ResDict(<<Entry("abc", List(<<"10.0">>)), Entry("100", List(<<"12.5">>))>>) } }
    \cup { Item(Utrecht, <<Dev("70:ee:50:bb", Measure(<<"Temperature">>, r))>>) :
        r \in { ResDict(<<Entry("100", List(<<"n/a">>))>>) } }
    \cup { NotAnItem }

(* Sequences over S of length at most n. *)
SeqsUpTo(S, n) == UNION { [1..k -> S] : k \in 0..n }

Json(body) == [isdict |-> TRUE, has_body |-> TRUE, body |-> body]
JsonNoBody == [isdict |-> TRUE, has_body |-> FALSE, body |-> <<>>]
JsonNotDict == [isdict |-> FALSE, has_body |-> FALSE, body |-> <<>>]

JsonOver(S) == { Json(b) : b \in SeqsUpTo(S, MaxBody) } \cup { JsonNoBody, JsonNotDict }

----------------------------------------------------------------------------
(* parse_public_data *)

(* any(str(t).lower() in ["temperature", "temp"] for t in m_types) *)
HasTemperature(m_types) ==
    \E k \in 1..Len(m_types) : Lower(m_types[k]) \in {"temperature", "temp"}

(* max(int(k) for k in res.keys()), when every key is accepted by int(). *)
MaxKey(entries) ==
    CHOOSE n \in { IntOf(entries[k].key) : k \in 1..Len(entries) } :
        \A k \in 1..Len(entries) : IntOf(entries[k].key) <= n

(* dict.get(key): the value stored under exactly that key, or None. *)
HasKey(entries, key) == \E k \in 1..Len(entries) : entries[k].key = key
Get(entries, key) ==
    entries[CHOOSE k \in 1..Len(entries) : entries[k].key = key].vals

(* A value's truth in `a or b`: an empty list is false, so is None. *)
Truthy(vals) == ~vals.list \/ Len(vals.elems) > 0

Unset == [temp |-> None, ts |-> NoTs]

(* Lines 184-196: the latest reading of one device, or both fields unset.
   The keys of a JSON object are strings, so res.get(ts) with the integer ts
   finds nothing. *)
LatestReading(res) ==
    IF res.kind = "dict" /\ Len(res.entries) > 0
    THEN IF \E k \in 1..Len(res.entries) : ~IsIntText(res.entries[k].key)
         THEN Unset   \* int() raised, except Exception: pass
         ELSE LET ts == MaxKey(res.entries)
              IN  IF HasKey(res.entries, StrOf(ts))
                     /\ Truthy(Get(res.entries, StrOf(ts)))
                     /\ Get(res.entries, StrOf(ts)).list
                  THEN [temp |-> Get(res.entries, StrOf(ts)).elems[1], ts |-> ts]
                  ELSE Unset
    ELSE Unset

(* Lines 199-204: `if latest_ts:` is false for None and for 0. *)
TimestampAmsterdam(latest_ts) ==
    IF latest_ts # NoTs /\ latest_ts # 0 THEN latest_ts + AMSTERDAM_OFFSET ELSE NoTs

Latitude(place) ==
    IF place.has_location
    THEN (IF Len(place.location) > 1 THEN place.location[2] ELSE None)
    ELSE None
Longitude(place) ==
    IF place.has_location
    THEN (IF Len(place.location) > 0 THEN place.location[1] ELSE None)
    ELSE None

(* Lines 207-218: the row of one temperature-capable device. *)
Row(tile_info, place, dev) ==
    LET r == LatestReading(dev.m.res)
    IN  [ city_area |-> tile_info.city,
          tile_id |-> tile_info.id,
          device_id |-> dev.dev_id,
          timestamp_amsterdam |-> TimestampAmsterdam(r.ts),
          temperature_c |-> r.temp,
          latitude |-> Latitude(place),
          longitude |-> Longitude(place) ]

(* Lines 178-218: the rows of one item of the body, in measures order. *)
RECURSIVE MeasureRows(_, _, _)
MeasureRows(tile_info, place, measures) ==
    IF measures = <<>> THEN <<>>
    ELSE (IF HasTemperature(Head(measures).m.type)
          THEN <<Row(tile_info, place, Head(measures))>>
          ELSE <<>>)
         \o MeasureRows(tile_info, place, Tail(measures))

RECURSIVE BodyRows(_, _)
BodyRows(tile_info, body) ==
    IF body = <<>> THEN <<>>
    ELSE MeasureRows(tile_info, Head(body).place, Head(body).measures)
         \o BodyRows(tile_info, Tail(body))

(* One pass over the rows in order, keeping a row when no kept row has its
   device_id (keep="first"), or letting it replace that row (keep="last"). *)
RECURSIVE Dedupe(_, _, _, _)
Dedupe(rows, k, kept, keep) ==
    IF k > Len(rows) THEN kept
    ELSE IF \E m \in 1..Len(kept) : kept[m].device_id = rows[k].device_id
         THEN Dedupe(rows, k + 1,
                     IF keep = "first" THEN kept
                     ELSE Append(SelectSeq(kept, LAMBDA r : r.device_id # rows[k].device_id),
                                 rows[k]),
                     keep)
         ELSE Dedupe(rows, k + 1, Append(kept, rows[k]), keep)

(* The variant drop_duplicates(subset=["device_id"], keep="last"). *)
DropDuplicatesKeepLast(rows) == Dedupe(rows, 1, <<>>, "last")

(* df.drop_duplicates(subset=["device_id"]): keep="first" is pandas' default. *)
drop_duplicates(rows) == Dedupe(rows, 1, <<>>, "first")

(* No filtering at all. *)
KeepNa(rows) == rows

(* df.dropna(subset=["temperature_c"]) *)
dropna(rows) == SelectSeq(rows, LAMBDA r : r.temperature_c # None)

(* item.get(...) raises AttributeError on an item that is no JSON object. *)
ParseRaises(public_json) ==
    \E k \in 1..Len(public_json.body) : ~public_json.body[k].isdict

(* The variant that drops the unset temperatures before the duplicates. *)
ParseDropnaFirst(public_json, tile_info) ==
    LET body == IF public_json.has_body THEN public_json.body ELSE <<>>
        rows == BodyRows(tile_info, body)
    IN  IF Len(rows) > 0 THEN drop_duplicates(dropna(rows)) ELSE rows

(* Lines 169-226, for a response parse does not raise on. *)
parse_public_data(public_json, tile_info) ==
    LET body == IF public_json.has_body THEN public_json.body ELSE <<>>
        rows == BodyRows(tile_info, body)
    IN  IF Len(rows) > 0 THEN dropna(drop_duplicates(rows)) ELSE rows

Raise == [raised |-> TRUE, df |-> <<>>]
Return(rows) == [raised |-> FALSE, df |-> rows]

(* get_public_data: what requests.post / raise_for_status / r.json() did. *)
FetchStatus == {"ok", "http_error", "request_failed"}
get_public_data(status, json) ==
    IF status = "ok" THEN json ELSE Json(<<>>)

(* Lines 229-238.  public_json.get raises when the JSON is no object. *)
download_tile(status, json, tile) ==
    LET got == get_public_data(status, json)
    IN  IF ~got.isdict THEN Raise
        ELSE IF (IF got.has_body THEN Len(got.body) ELSE 0) = 0 THEN Return(<<>>)
        ELSE IF ParseRaises(got) THEN Raise
        ELSE Return(parse_public_data(got, tile))

----------------------------------------------------------------------------
(* Floating-point arithmetic: every operation returns the exact result rounded
   to the nearest representable number, ties to even (IEEE 754). *)

Abs(x) == IF x < 0 THEN 0 - x ELSE x

RECURSIVE Pow2(_)
Pow2(n) == IF n = 0 THEN 1 ELSE 2 * Pow2(n - 1)

(* The spacing of the representable numbers at magnitude a. *)
RECURSIVE QuantumFrom(_, _)
QuantumFrom(a, q) == IF a < Pow2(MantissaBits) * q THEN q ELSE QuantumFrom(a, 2 * q)
Quantum(a) == QuantumFrom(a, 1)

(* The multiple of q nearest to n/d (d > 0), ties to the even multiple. *)
RoundTo(n, d, q) ==
    LET m == n \div (d * q)
        rem == n - m * d * q
    IN  IF 2 * rem > d * q \/ (2 * rem = d * q /\ m % 2 = 1)
        THEN (m + 1) * q
        ELSE m * q

FlRat(n, d) == RoundTo(n, d, Quantum(Abs(n) \div d))
FAdd(a, b) == FlRat(a + b, 1)
FSub(a, b) == FlRat(a - b, 1)
FMul(k, a) == FlRat(k * a, 1)
FDiv(a, k) == FlRat(a, k)

(* round(x, 4), as the number of 0.0001 steps of the result. *)
Round4(x) == RoundTo(x, 1, RoundUnit) \div RoundUnit

----------------------------------------------------------------------------
(* generate_city_tiles (lines 101-142) *)

(* km_to_degrees returns a positive pair; cos <= 1 makes lon_degree the larger. *)
Degrees ==
    { d \in (MinDegree..MaxDegree) \X (MinDegree..MaxDegree) : d[1] <= d[2] }

CityConfigs ==
    [ name : {"Utrecht"},
      center_lat : MinCenter..MaxCenter,
      center_lon : MinCenter..MaxCenter ]

(* Lines 109-114. *)
Bounds(config, deg) ==
    [ lat_max |-> FAdd(config.center_lat, deg[1]),
      lat_min |-> FSub(config.center_lat, deg[1]),
      lon_max |-> FAdd(config.center_lon, deg[2]),
      lon_min |-> FSub(config.center_lon, deg[2]) ]

(* Lines 116-117. *)
LatStep(bounds, rows) == FDiv(FSub(bounds.lat_max, bounds.lat_min), rows)
LonStep(bounds, cols) == FDiv(FSub(bounds.lon_max, bounds.lon_min), cols)

(* Rows counted from the south. *)
LatNeFromSouth(bounds, lat_step, r) == FAdd(bounds.lat_min, FMul(r + 1, lat_step))

(* Lines 123-124 and 127-128. *)
LatNe(bounds, lat_step, r) == FSub(bounds.lat_max, FMul(r, lat_step))
LatSw(bounds, lat_step, r) == FSub(LatNe(bounds, lat_step, r), lat_step)
LonSw(bounds, lon_step, c) == FAdd(bounds.lon_min, FMul(c, lon_step))
LonNe(bounds, lon_step, c) == FAdd(LonSw(bounds, lon_step, c), lon_step)

(* Lines 130-139: the tile of (row, col). *)
Tile(config, deg, rows, cols, id, r, c) ==
    LET bounds == Bounds(config, deg)
        lat_step == LatStep(bounds, rows)
        lon_step == LonStep(bounds, cols)
    IN  [ id |-> <<config.name, id>>,
          city |-> config.name,
          row |-> r,
          col |-> c,
          lat_ne |-> Round4(LatNe(bounds, lat_step, r)),
          lon_ne |-> Round4(LonNe(bounds, lon_step, c)),
          lat_sw |-> Round4(LatSw(bounds, lat_step, r)),
          lon_sw |-> Round4(LonSw(bounds, lon_step, c)) ]

TilesIdle ==
    /\ city_config = [name |-> "", center_lat |-> 0, center_lon |-> 0]
    /\ degrees = <<0, 0>> /\ num_rows = 0 /\ num_cols = 0
    /\ tiles = <<>> /\ tile_id = 0 /\ row = 0 /\ col = 0 /\ tpc = "idle"

----------------------------------------------------------------------------
(* main: the tile list (lines 276-283) *)

CITIES == <<"Utrecht", "Amsterdam", "Rotterdam">>
TILES_ROWS == 2
TILES_COLS == 2

(* The id and city of the tiles generate_city_tiles emits for one city. *)
CityTiles(name, rows, cols) ==
    [k \in 1..(rows * cols) |-> [id |-> <<name, k>>, city |-> name]]

RECURSIVE AllTiles(_, _, _)
AllTiles(cities, rows, cols) ==
    IF cities = <<>> THEN <<>>
    ELSE CityTiles(Head(cities), rows, cols)
         \o AllTiles(Tail(cities), rows, cols)

(* The tile lists main is run on: a prefix of the cities, a grid no larger
   than the configured one, at most MaxTiles tiles. *)
TileLists ==
    { AllTiles(SubSeq(CITIES, 1, n), r, c) :
        <<n, r, c>> \in { t \in (1..Len(CITIES)) \X (1..TILES_ROWS) \X (1..TILES_COLS) :
                            t[1] * t[2] * t[3] <= MaxTiles } }

----------------------------------------------------------------------------
(* main: the loop, the merge and the save (lines 291-334) *)

RECURSIVE Concat(_)
(* pd.concat(all_data, ignore_index=True) *)
Concat(dfs) == IF dfs = <<>> THEN <<>> ELSE Head(dfs) \o Concat(Tail(dfs))

(* df['temperature_c'].mean() raises TypeError on a non-numeric value. *)
MeanRaises(rows) == \E k \in 1..Len(rows) : ~IsNumeric(rows[k].temperature_c)

AfterLoop == {"merge", "save", "exit", "done"}
Terminated == pc \in {"exit", "done"}

(* The loop's next position: `for i, tile in enumerate(all_tiles, 1)`. *)
NextTile ==
    /\ i' = i + 1
    /\ pc' = IF i < Len(all_tiles) THEN "download" ELSE "merge"

MainInit ==
    /\ all_tiles \in TileLists
    /\ i = 1
    /\ pc = "download"
    /\ df = <<>>
    /\ all_data = <<>>
    /\ successful_tiles = 0
    /\ failed_tiles = 0
    /\ df_combined = <<>>
    /\ saved = <<>>
    /\ fetched = <<>>
    /\ yielded = [k \in 1..Len(all_tiles) |-> <<>>]
    /\ raised = {}
    /\ sleeps = 0
    /\ slept_since_fetch = FALSE
    /\ unpaced = {}
    /\ na_seen = FALSE

(* Line 301: df = download_tile(access_token, tile), or the exception it raises. *)
DownloadTile ==
    /\ pc = "download"
    /\ \E status \in FetchStatus :
         \E json \in (IF status = "ok" THEN JsonOver(MainItems) ELSE {JsonNoBody}) :
            LET out == download_tile(status, json, all_tiles[i])
            IN  /\ fetched' = Append(fetched, i)
                /\ unpaced' = IF i > 1 /\ ~slept_since_fetch
                              THEN unpaced \cup {i} ELSE unpaced
                /\ slept_since_fetch' = FALSE
                /\ IF out.raised
                   THEN /\ pc' = "except"
                        /\ raised' = raised \cup {i}
                        /\ UNCHANGED <<df, yielded, na_seen>>
                   ELSE /\ pc' = "collect"
                        /\ df' = out.df
                        /\ yielded' = [yielded EXCEPT ![i] = out.df]
                        /\ na_seen' = (na_seen \/ (status = "ok" /\
                              \E k \in 1..Len(BodyRows(all_tiles[i], json.body)) :
                                 BodyRows(all_tiles[i], json.body)[k].temperature_c = None))
                        /\ UNCHANGED raised
    /\ UNCHANGED <<all_tiles, i, all_data, successful_tiles, failed_tiles,
                   df_combined, saved, sleeps>>
    /\ UNCHANGED <<parsevars, tilevars>>

(* Lines 303-310: append and count, then the statistics line, whose mean()
   raises after the append when a temperature is not a number. *)
Collect ==
    /\ pc = "collect"
    /\ IF Len(df) > 0
       THEN /\ all_data' = Append(all_data, df)
            /\ successful_tiles' = successful_tiles + 1
            /\ IF MeanRaises(df)
               THEN pc' = "except" /\ raised' = raised \cup {i}
               ELSE pc' = "pace" /\ UNCHANGED raised
       ELSE /\ pc' = "pace"
            /\ UNCHANGED <<all_data, successful_tiles, raised>>
    /\ UNCHANGED <<all_tiles, i, df, failed_tiles, df_combined, saved, fetched,
                   yielded, sleeps, slept_since_fetch, unpaced, na_seen>>
    /\ UNCHANGED <<parsevars, tilevars>>

(* Lines 312-313, then the next iteration. *)
Pace ==
    /\ pc = "pace"
    /\ IF i < Len(all_tiles)
       THEN sleeps' = sleeps + 1 /\ slept_since_fetch' = TRUE
       ELSE UNCHANGED <<sleeps, slept_since_fetch>>
    /\ NextTile
    /\ UNCHANGED <<all_tiles, df, all_data, successful_tiles, failed_tiles,
                   df_combined, saved, fetched, yielded, raised, unpaced, na_seen>>
    /\ UNCHANGED <<parsevars, tilevars>>

(* The handler re-raising instead of continuing. *)
HandleErrorAborts ==
    /\ pc = "except"
    /\ pc' = "aborted"
    /\ failed_tiles' = failed_tiles + 1
    /\ UNCHANGED <<all_tiles, i, df, all_data, successful_tiles, df_combined,
                   saved, fetched, yielded, raised, sleeps, slept_since_fetch,
                   unpaced, na_seen>>
    /\ UNCHANGED <<parsevars, tilevars>>

(* Lines 315-318: except Exception: failed_tiles += 1; continue. *)
HandleError ==
    /\ pc = "except"
    /\ failed_tiles' = failed_tiles + 1
    /\ NextTile
    /\ UNCHANGED <<all_tiles, df, all_data, successful_tiles, df_combined,
                   saved, fetched, yielded, raised, sleeps, slept_since_fetch,
                   unpaced, na_seen>>
    /\ UNCHANGED <<parsevars, tilevars>>

(* The merge without the check for an empty accumulator. *)
MergeUnchecked ==
    /\ pc = "merge"
    /\ df_combined' = drop_duplicates(Concat(all_data))
    /\ pc' = "save"
    /\ UNCHANGED <<all_tiles, i, df, all_data, successful_tiles, failed_tiles,
                   saved, fetched, yielded, raised, sleeps, slept_since_fetch,
                   unpaced, na_seen>>
    /\ UNCHANGED <<parsevars, tilevars>>

(* The merge without the global drop_duplicates. *)
MergeConcatOnly ==
    /\ pc = "merge"
    /\ IF Len(all_data) = 0
       THEN pc' = "exit" /\ UNCHANGED df_combined
       ELSE pc' = "save" /\ df_combined' = Concat(all_data)
    /\ UNCHANGED <<all_tiles, i, df, all_data, successful_tiles, failed_tiles,
                   saved, fetched, yielded, raised, sleeps, slept_since_fetch,
                   unpaced, na_seen>>
    /\ UNCHANGED <<parsevars, tilevars>>

(* Lines 323-328: sys.exit(1) on no data, else concat and drop_duplicates. *)
Merge ==
    /\ pc = "merge"
    /\ IF Len(all_data) = 0
       THEN pc' = "exit" /\ UNCHANGED df_combined
       ELSE pc' = "save" /\ df_combined' = drop_duplicates(Concat(all_data))
    /\ UNCHANGED <<all_tiles, i, df, all_data, successful_tiles, failed_tiles,
                   saved, fetched, yielded, raised, sleeps, slept_since_fetch,
                   unpaced, na_seen>>
    /\ UNCHANGED <<parsevars, tilevars>>

(* Line 334: save_data(df_combined, timestamp). *)
SaveData ==
    /\ pc = "save"
    /\ saved' = Append(saved, df_combined)
    /\ pc' = "done"
    /\ UNCHANGED <<all_tiles, i, df, all_data, successful_tiles, failed_tiles,
                   df_combined, fetched, yielded, raised, sleeps,
                   slept_since_fetch, unpaced, na_seen>>
    /\ UNCHANGED <<parsevars, tilevars>>

MainNext == DownloadTile \/ Collect \/ Pace \/ HandleError \/ Merge \/ SaveData

----------------------------------------------------------------------------
(* parse_public_data applied to one raw response of one tile *)

ParseTile == [id |-> <<"Utrecht", 1>>, city |-> "Utrecht"]

ParseInit ==
    /\ response \in { j \in JsonOver(Items) : j.isdict }
    /\ parsed = <<>>
    /\ ppc = "start"

Parse ==
    /\ ppc = "start"
    /\ ~ParseRaises(response)
    /\ parsed' = parse_public_data(response, ParseTile)
    /\ ppc' = "parsed"
    /\ UNCHANGED response
    /\ UNCHANGED <<mainvars, tilevars>>

ParseFails ==
    /\ ppc = "start"
    /\ ParseRaises(response)
    /\ ppc' = "raised"
    /\ UNCHANGED <<response, parsed>>
    /\ UNCHANGED <<mainvars, tilevars>>

ParseIdle == response = JsonNoBody /\ parsed = <<>> /\ ppc = "idle"
MainIdle ==
    /\ all_tiles = <<>> /\ i = 0 /\ pc = "idle" /\ df = <<>> /\ all_data = <<>>
    /\ successful_tiles = 0 /\ failed_tiles = 0 /\ df_combined = <<>>
    /\ saved = <<>> /\ fetched = <<>> /\ yielded = <<>> /\ raised = {}
    /\ sleeps = 0 /\ slept_since_fetch = FALSE /\ unpaced = {} /\ na_seen = FALSE

----------------------------------------------------------------------------
(* generate_city_tiles run on one city: the two loops, one tile a step *)

TilesInit ==
    /\ city_config \in CityConfigs
    /\ degrees \in Degrees
    /\ num_rows \in 1..MaxRows
    /\ num_cols \in 1..MaxCols
    /\ tiles = <<>>
    /\ tile_id = 1
    /\ row = 0
    /\ col = 0
    /\ tpc = "loop"

(* Lines 126-140: one pass of the inner loop, then the loops' next position. *)
AppendTile ==
    /\ tpc = "loop"
    /\ tiles' = Append(tiles, Tile(city_config, degrees, num_rows, num_cols,
                                   tile_id, row, col))
    /\ tile_id' = tile_id + 1
    /\ IF col + 1 < num_cols
       THEN col' = col + 1 /\ UNCHANGED <<row, tpc>>
       ELSE /\ col' = 0
            /\ row' = row + 1
            /\ tpc' = IF row + 1 < num_rows THEN "loop" ELSE "returned"
    /\ UNCHANGED <<city_config, degrees, num_rows, num_cols>>
    /\ UNCHANGED <<mainvars, parsevars>>

----------------------------------------------------------------------------
(* Specifications *)

Init == MainInit /\ ParseIdle /\ TilesIdle
Next == MainNext
Spec == Init /\ [][Next]_vars
FairSpec == Spec /\ WF_vars(Next)

ParseSpecInit == MainIdle /\ ParseInit /\ TilesIdle
ParseNext == Parse \/ ParseFails
ParseSpec == ParseSpecInit /\ [][ParseNext]_vars

TilesSpecInit == MainIdle /\ ParseIdle /\ TilesInit
TilesNext == AppendTile
TilesSpec == TilesSpecInit /\ [][TilesNext]_vars

----------------------------------------------------------------------------
(* Properties of main's run (Spec, FairSpec) *)

DevicesOf(rows) == { rows[k].device_id : k \in 1..Len(rows) }
Distinct(rows) ==
    \A a, b \in 1..Len(rows) : a # b => rows[a].device_id # rows[b].device_id
NoNa(rows) == \A k \in 1..Len(rows) : rows[k].temperature_c # None
TileIndex(id) == CHOOSE k \in 1..Len(all_tiles) : all_tiles[k].id = id
TileIds == { all_tiles[k].id : k \in 1..Len(all_tiles) }

(* C1: the merged dataset, and what save_data receives, holds each device_id
   at most once, whichever tiles reported it. *)
C1_UniqueDevices ==
    /\ pc \in {"save", "done"} => Distinct(df_combined)
    /\ \A k \in 1..Len(saved) : Distinct(saved[k])

(* Two tiles of different cities both yielded the same device, and the run
   saved its dataset. *)
C1_Witness ==
    /\ pc = "done"
    /\ \E a, b \in 1..Len(all_tiles) :
          /\ all_tiles[a].city # all_tiles[b].city
          /\ DevicesOf(yielded[a]) \cap DevicesOf(yielded[b]) # {}

(* C2: every record of the merged dataset is a record the tile named by its
   tile_id yielded, no earlier tile yielded that device, and every device some
   tile yielded is in the dataset. *)
C2_FirstSeenWins ==
    pc \in {"save", "done"} =>
        /\ \A k \in 1..Len(df_combined) :
              /\ df_combined[k].tile_id \in TileIds
              /\ LET t == TileIndex(df_combined[k].tile_id)
                 IN  /\ \E m \in 1..Len(yielded[t]) : yielded[t][m] = df_combined[k]
                     /\ \A j \in 1..(t - 1) :
                           df_combined[k].device_id \notin DevicesOf(yielded[j])
        /\ \A t \in 1..Len(all_tiles) : DevicesOf(yielded[t]) \subseteq DevicesOf(df_combined)

(* A later tile yielded a device an earlier tile had yielded, with another
   temperature, and the run merged. *)
C2_Witness ==
    /\ pc = "done"
    /\ \E a, b \in 1..Len(all_tiles) :
          /\ a < b
          /\ \E m \in 1..Len(yielded[a]) : \E n \in 1..Len(yielded[b]) :
                /\ yielded[a][m].device_id = yielded[b][n].device_id
                /\ yielded[a][m].temperature_c # yielded[b][n].temperature_c

(* C3: no record of a per-tile set, of the accumulator, of the merged dataset
   or of the saved dataset has an unset temperature. *)
C3_NoUnsetTemperature ==
    /\ NoNa(df)
    /\ \A t \in 1..Len(yielded) : NoNa(yielded[t])
    /\ \A k \in 1..Len(all_data) : NoNa(all_data[k])
    /\ NoNa(df_combined)
    /\ \A k \in 1..Len(saved) : NoNa(saved[k])

(* A response held a temperature-capable device without a reading and the
   run still saved a dataset. *)
C3_Witness == pc = "done" /\ na_seen /\ Len(saved) = 1

(* C4: the loop fetches the tiles once each in list order, counts every raised
   tile as failed, and always reaches the merge and then ends. *)
C4_NeverAborts ==
    /\ [](fetched = [k \in 1..Len(fetched) |-> k])
    /\ [](pc \in AfterLoop =>
            /\ fetched = [k \in 1..Len(all_tiles) |-> k]
            /\ failed_tiles = Cardinality(raised))
    /\ <>(pc = "merge")
    /\ <>Terminated

(* The first of several tiles raised and the run is at the merge. *)
C4_Witness ==
    /\ pc = "merge"
    /\ Len(all_tiles) > 1
    /\ 1 \in raised
    /\ successful_tiles > 0

(* C5: when no tile yielded a record the run exits without saving, and every
   dataset save_data receives is non-empty. *)
C5_RunLevelFailure ==
    /\ (pc \in {"save", "exit", "done"} /\ \A t \in 1..Len(all_tiles) : yielded[t] = <<>>)
          => (pc = "exit" /\ saved = <<>>)
    /\ pc = "exit" => saved = <<>>
    /\ \A k \in 1..Len(saved) : Len(saved[k]) > 0

(* Several tiles, one of which raised, none yielding a record: the run exited. *)
C5_Witness ==
    /\ pc = "exit"
    /\ Len(all_tiles) > 1
    /\ raised # {}
    /\ Cardinality(raised) < Len(all_tiles)

(* C6: every fetch but the first is preceded by a pause since the fetch before
   it, whatever the earlier tile's outcome, and no pause follows the last tile. *)
C6_PacedBetweenTiles ==
    /\ unpaced = {}
    /\ pc \in AfterLoop => ~slept_since_fetch

(* C10: after the loop the counts partition the tiles: successful plus failed
   is at most the number of tiles, the accumulator holds one set per
   successful tile, and no set in it comes from a tile that raised. *)
C10_OutcomePartition ==
    pc \in AfterLoop =>
        /\ successful_tiles + failed_tiles <= Len(all_tiles)
        /\ Len(all_data) = successful_tiles
        /\ \A t \in raised : \A k \in 1..Len(all_data) : \A m \in 1..Len(all_data[k]) :
              all_data[k][m].tile_id # all_tiles[t].id

----------------------------------------------------------------------------
(* Properties of parse_public_data (ParseSpec) *)

(* The rows of the temperature-capable device entries, in response order. *)
RawRows == BodyRows(ParseTile, response.body)
Occurrences(d) == { k \in 1..Len(RawRows) : RawRows[k].device_id = d }
FirstOccurrence(d) ==
    RawRows[CHOOSE k \in Occurrences(d) : \A j \in Occurrences(d) : k <= j]
Emitted(d) == { m \in 1..Len(parsed) : parsed[m].device_id = d }

(* C9 as stated: a device id with several temperature-capable entries gets
   exactly one record, the first entry's. *)
C9_ExactlyOneRecord ==
    ppc = "parsed" =>
        \A d \in DeviceIds :
            Cardinality(Occurrences(d)) >= 2 =>
                /\ Cardinality(Emitted(d)) = 1
                /\ \A m \in Emitted(d) : parsed[m] = FirstOccurrence(d)

(* C9 amended: a device id with several temperature-capable entries gets the
   first entry's record and no other when that entry has a temperature, and
   no record at all when it has none. *)
C9_FirstOccurrenceOrNone ==
    ppc = "parsed" =>
        \A d \in DeviceIds :
            Cardinality(Occurrences(d)) >= 2 =>
                IF FirstOccurrence(d).temperature_c # None
                THEN /\ Cardinality(Emitted(d)) = 1
                     /\ \A m \in Emitted(d) : parsed[m] = FirstOccurrence(d)
                ELSE Emitted(d) = {}

(* Two entries of one device, both with a temperature, the temperatures
   different, were parsed. *)
C9_Witness ==
    /\ ppc = "parsed"
    /\ \E a, b \in 1..Len(RawRows) :
          /\ a < b
          /\ RawRows[a].device_id = RawRows[b].device_id
          /\ RawRows[a].temperature_c # None
          /\ RawRows[b].temperature_c # None
          /\ RawRows[a].temperature_c # RawRows[b].temperature_c

----------------------------------------------------------------------------
(* Properties of generate_city_tiles (TilesSpec) *)

TBounds == Bounds(city_config, degrees)
TLatStep == FDiv(FSub(TBounds.lat_max, TBounds.lat_min), num_rows)
TLonStep == FDiv(FSub(TBounds.lon_max, TBounds.lon_min), num_cols)

(* C7 as stated: the k-th tile is (k div cols, k mod cols) with suffix k+1 and
   its edges are the stated multiples of the steps away from lat_max, lon_min. *)
C7_ExactSpan ==
    \A k \in 0..(Len(tiles) - 1) :
        LET t == tiles[k + 1]
            r == k \div num_cols
            c == k % num_cols
        IN  /\ t.row = r /\ t.col = c /\ t.id = <<city_config.name, k + 1>>
            /\ t.lat_sw * RoundUnit = TBounds.lat_max - (r + 1) * TLatStep
            /\ t.lat_ne * RoundUnit = TBounds.lat_max - r * TLatStep
            /\ t.lon_sw * RoundUnit = TBounds.lon_min + c * TLonStep
            /\ t.lon_ne * RoundUnit = TBounds.lon_min + (c + 1) * TLonStep

(* C7 amended: the k-th tile is (k div cols, k mod cols) with suffix k+1; its
   north and west edges are round4(lat_max - row*lat_step) and
   round4(lon_min + col*lon_step), its south and east edges are round4 of one
   step below that north edge and one step east of that west edge. *)
C7_RowMajorRounded ==
    \A k \in 0..(Len(tiles) - 1) :
        LET t == tiles[k + 1]
            r == k \div num_cols
            c == k % num_cols
            north == FSub(TBounds.lat_max, FMul(r, TLatStep))
            west == FAdd(TBounds.lon_min, FMul(c, TLonStep))
        IN  /\ t.row = r /\ t.col = c /\ t.id = <<city_config.name, k + 1>>
            /\ t.lat_ne = Round4(north)
            /\ t.lat_sw = Round4(FSub(north, TLatStep))
            /\ t.lon_sw = Round4(west)
            /\ t.lon_ne = Round4(FAdd(west, TLonStep))

(* A grid of several rows and columns was emitted whole, and rounding moved
   an edge. *)
C7_Witness ==
    /\ tpc = "returned"
    /\ num_rows > 1
    /\ num_cols > 1
    /\ \E k \in 1..Len(tiles) :
          tiles[k].lat_sw * RoundUnit # LatSw(TBounds, TLatStep, tiles[k].row)

(* C8: rows*cols tiles; neighbours share their edge; no two tiles overlap in
   area; the outer edges are the rounded bounds of the region. *)
C8_Partition ==
    tpc = "returned" =>
        /\ Len(tiles) = num_rows * num_cols
        /\ \A a, b \in 1..Len(tiles) :
              /\ (tiles[b].row = tiles[a].row + 1 /\ tiles[b].col = tiles[a].col)
                    => tiles[a].lat_sw = tiles[b].lat_ne
              /\ (tiles[b].col = tiles[a].col + 1 /\ tiles[b].row = tiles[a].row)
                    => tiles[a].lon_ne = tiles[b].lon_sw
              /\ a # b =>
                    \/ tiles[a].lat_ne <= tiles[b].lat_sw
                    \/ tiles[b].lat_ne <= tiles[a].lat_sw
                    \/ tiles[a].lon_ne <= tiles[b].lon_sw
                    \/ tiles[b].lon_ne <= tiles[a].lon_sw
        /\ \A k \in 1..Len(tiles) :
              /\ tiles[k].row = 0 => tiles[k].lat_ne = Round4(TBounds.lat_max)
              /\ tiles[k].row = num_rows - 1 => tiles[k].lat_sw = Round4(TBounds.lat_min)
              /\ tiles[k].col = 0 => tiles[k].lon_sw = Round4(TBounds.lon_min)
              /\ tiles[k].col = num_cols - 1 => tiles[k].lon_ne = Round4(TBounds.lon_max)

====
